---- MODULE Spec2Model ----
(***************************************************************************)
(* km_diff: difference between two sorted k-mer matrices (src/km_diff.c).  *)
(* Text is modelled at the byte level: a C string is a sequence of byte    *)
(* values 1..255, a file is a sequence of lines, each line carrying its    *)
(* terminating newline as getline() returns it.                            *)
(***************************************************************************)
EXTENDS Integers, Sequences, FiniteSets, TLC

(***************************************************************************)
(* Bounds of the explored inputs.                                          *)
(***************************************************************************)
MaxRows1 == 2    \* rows of <matrix_1>
MaxRows2 == 2    \* rows of <matrix_2>
MaxOpts  == 2    \* options on the command line
KeyLen   == 2    \* key length of the comparator specification

(***************************************************************************)
(* Bytes.                                                                  *)
(***************************************************************************)
Byte == 0..255

\* ASCII code of a one-character string; "~" stands for the byte 0xC8, a byte
\* above 0x7F as it occurs in UTF-8 or Latin-1 text.
Ord(c) ==
  CASE c = "\t" -> 9   [] c = "\n" -> 10  [] c = " " -> 32
    [] c = "0" -> 48   [] c = "1" -> 49   [] c = "2" -> 50
    [] c = "3" -> 51   [] c = "5" -> 53
    [] c = "A" -> 65   [] c = "C" -> 67   [] c = "G" -> 71
    [] c = "N" -> 78   [] c = "T" -> 84
    [] c = "a" -> 97   [] c = "c" -> 99   [] c = "g" -> 103
    [] c = "n" -> 110  [] c = "t" -> 116  [] c = "x" -> 120
    [] c = "~" -> 200

Str(cs) == [i \in 1..Len(cs) |-> Ord(cs[i])]

\* s[i] of a NUL-terminated C string held as the sequence of its bytes.
At(s, i) == IF i \in 1..Len(s) THEN s[i] ELSE 0

RECURSIVE NulPos(_, _)
NulPos(buf, i) ==
  IF i > Len(buf) \/ buf[i] = 0 THEN i ELSE NulPos(buf, i + 1)

\* strlen() and the C string a buffer holds: the bytes before its first NUL.
Strlen(buf) == NulPos(buf, 1) - 1
CStr(buf)   == SubSeq(buf, 1, Strlen(buf))

(***************************************************************************)
(* The lookup tables.                                                      *)
(***************************************************************************)
isnuc[b \in Byte] ==
  IF b \in {65, 67, 71, 78, 84, 97, 99, 103, 110, 116} THEN 1 ELSE 0

n2kt[b \in Byte] ==
  CASE b \in {65, 97}  -> 0
    [] b \in {71, 103} -> 3
    [] b \in {84, 116} -> 2
    [] OTHER           -> 1

(***************************************************************************)
(* Key comparators.                                                        *)
(***************************************************************************)
RECURSIVE FirstDiff(_, _, _)
\* while(*k1 && (*k1 == *k2)){ k1++; k2++; }
FirstDiff(k1, k2, i) ==
  IF At(k1, i) # 0 /\ At(k1, i) = At(k2, i) THEN FirstDiff(k1, k2, i + 1) ELSE i

\* Mutant: the bytes compared, not their ranks.
ktcmp_Bytes(k1, k2) ==
  LET i == FirstDiff(k1, k2, 1) IN At(k1, i) - At(k2, i)

\* Mutant: the ranks of the first characters compared, without the loop.
ktcmp_FirstOnly(k1, k2) == n2kt[At(k1, 1)] - n2kt[At(k2, 1)]

ktcmp(k1, k2) ==
  LET i == FirstDiff(k1, k2, 1) IN n2kt[At(k1, i)] - n2kt[At(k2, i)]

\* strcmp(): the difference of the first differing bytes, as unsigned char.
strcmp(s1, s2) ==
  LET i == FirstDiff(s1, s2, 1) IN At(s1, i) - At(s2, i)

(***************************************************************************)
(* Record reader.                                                          *)
(***************************************************************************)
\* (int)(*line)[i]: plain char is signed or unsigned, as the build has it.
CharToInt(b, sgn) == IF sgn /\ b >= 128 THEN b - 256 ELSE b

\* Mutant: any letter taken for a nucleotide.
IsnucAt_AnyLetter(idx, oob) ==
  IF idx \in (65..90) \cup (97..122) THEN 1 ELSE IF idx \in Byte THEN 0 ELSE oob

\* isnuc[idx]; an index outside the table reads whatever lies there (oob).
IsnucAt(idx, oob) == IF idx \in Byte THEN isnuc[idx] ELSE oob

RECURSIVE FirstBad(_, _, _, _, _)
\* The first i of the validation loop with !isnuc[(int)(*line)[i]], or
\* ksize + 1 when the loop runs to its end.
FirstBad(raw, ksize, i, sgn, oob) ==
  IF i > ksize THEN i
  ELSE IF IsnucAt(CharToInt(raw[i], sgn), oob) = 0 THEN i
  ELSE FirstBad(raw, ksize, i + 1, sgn, oob)

\* if(len > 0 && (*line)[len-1]=='\n') { (*line)[len-1] = '\0'; }
StripNewline(raw) ==
  IF Len(raw) > 0 /\ raw[Len(raw)] = 10 THEN SubSeq(raw, 1, Len(raw) - 1) ELSE raw

\* One call: the return value and what it leaves in kmer, *line and stream.
next_kmer_and_line(kmer, ksize, line, stream, sgn, oob) ==
  IF stream.pos >= Len(stream.rows)
  THEN [ret |-> FALSE, kmer |-> kmer, line |-> line, stream |-> stream]
  ELSE
    LET raw == stream.rows[stream.pos + 1]
        st  == [stream EXCEPT !.pos = @ + 1]
    IN IF Len(raw) < ksize
       THEN [ret |-> FALSE, kmer |-> kmer, line |-> raw, stream |-> st]
       ELSE
         LET bad == FirstBad(raw, ksize, 1, sgn, oob)
             km  == [i \in 1..Len(kmer) |-> IF i < bad THEN raw[i] ELSE kmer[i]]
         IN IF bad <= ksize
            THEN [ret |-> FALSE, kmer |-> km, line |-> raw, stream |-> st]
            ELSE [ret |-> TRUE, kmer |-> km, line |-> StripNewline(raw),
                  stream |-> st]

(***************************************************************************)
(* Column helpers.                                                         *)
(***************************************************************************)
IsDelim(b) == b \in {32, 9, 10}
IsBlank(b) == b \in {32, 9}

\* The number of strtok(.," \t\n") tokens of a line.
Tokens(line) ==
  Cardinality({i \in 1..Len(line) :
                 /\ ~IsDelim(line[i])
                 /\ (i = 1 \/ IsDelim(line[i - 1]))})

samples_number(line) ==
  LET n == Tokens(line) IN IF n > 0 THEN n - 1 ELSE 0

RECURSIVE SkipWhile(_, _, _)
SkipWhile(line, i, blank) ==
  IF i <= Len(line) /\ (IsBlank(line[i]) <=> blank)
  THEN SkipWhile(line, i + 1, blank) ELSE i

first_column(line) ==
  LET i == SkipWhile(line, 1, FALSE)
      j == SkipWhile(line, i, TRUE)
  IN SubSeq(line, j, Len(line))

RECURSIVE Zeros(_)
\* for(int i=0; i<n_sample_2; ++i){ fputs(" 0",outfile); }
Zeros(n) == IF n <= 0 THEN <<>> ELSE <<32, 48>> \o Zeros(n - 1)

(***************************************************************************)
(* Command line and files the runs are explored on.                        *)
(***************************************************************************)
BoundedSeq(S, n) == UNION {[1..m -> S] : m \in 0..n}

\* One option of the command line: its letter and its argument.
Options ==
  {[c |-> "k", arg |-> "0"], [c |-> "k", arg |-> "1"], [c |-> "k", arg |-> "3"],
   [c |-> "o", arg |-> "out"], [c |-> "z", arg |-> ""], [c |-> "h", arg |-> ""]}

\* Lines of matrices with 1-mers: valid rows of width 1, 2, 1 (tab separated)
\* and 0 (key alone), and rows whose key byte is 'a', 'x' and 0xC8.
Lines1 ==
  {Str(<<"A", " ", "1", "\n">>), Str(<<"C", " ", "1", " ", "2", "\n">>),
   Str(<<"G", "\t", "1", "\n">>), Str(<<"T", "\n">>),
   Str(<<"a", " ", "1", "\n">>), Str(<<"x", " ", "1", "\n">>),
   Str(<<"~", " ", "1", "\n">>)}

Lines2 ==
  {Str(<<"A", " ", "1", "\n">>), Str(<<"C", " ", "1", " ", "2", "\n">>),
   Str(<<"G", "\t", "1", "\n">>), Str(<<"T", "\n">>),
   Str(<<"x", " ", "1", "\n">>)}

\* The matrices of the 3-mer example, and a matrix with a line shorter than k.
ExampleLeft ==
  <<Str(<<"A", "A", "A", " ", "1", " ", "2", "\n">>),
    Str(<<"A", "A", "C", " ", "0", " ", "1", "\n">>),
    Str(<<"T", "T", "T", " ", "3", " ", "3", "\n">>)>>

ExampleRight ==
  <<Str(<<"A", "A", "C", " ", "5", " ", "5", "\n">>),
    Str(<<"G", "G", "G", " ", "0", " ", "0", "\n">>)>>

ShortLine ==
  <<Str(<<"A", "A", "A", " ", "1", "\n">>), Str(<<"A", "\n">>),
    Str(<<"T", "T", "T", " ", "3", "\n">>)>>

\* The contents fopen() can find behind <matrix_1> and <matrix_2>.
Matrices1(k) ==
  IF k = 1 THEN BoundedSeq(Lines1, MaxRows1)
  ELSE {ExampleLeft, ExampleRight, ShortLine}

Matrices2(k) ==
  IF k = 1 THEN BoundedSeq(Lines2, MaxRows2)
  ELSE {ExampleLeft, ExampleRight, ShortLine}

(***************************************************************************)
(* State of a run of main().                                               *)
(***************************************************************************)
VARIABLES
  pc,           \* position in main()
  opts,         \* the options getopt() has not returned yet
  npos,         \* argc - optind once the options are consumed
  zflag,        \* whether -z was on the command line
  ksize, out_fname, use_ktcmp, help_opt,
  mat_1, mat_2, \* the input streams: state, lines, lines consumed
  outfile,      \* "null", "stdout", "file" or "closed"
  out,          \* the bytes written to outfile
  kmer_1, kmer_2, line_1, line_2,
  has_kmer_1, has_kmer_2, n_sample_1, n_sample_2,
  status,       \* the exit status, once pc = "exit"
  reads_1, reads_2, \* calls of next_kmer_and_line made on each stream
  cmp_in,       \* comparator specification: the order and the two keys
  cmp_out,      \* comparator specification: the two results
  rd_in,        \* reader specification: char signed or not, and the line
  rd_out        \* reader specification: the result and the indices used

vars ==
  <<pc, opts, npos, zflag, ksize, out_fname, use_ktcmp, help_opt, mat_1, mat_2,
    outfile, out, kmer_1, kmer_2, line_1, line_2, has_kmer_1, has_kmer_2,
    n_sample_1, n_sample_2, status, reads_1, reads_2, cmp_in, cmp_out,
    rd_in, rd_out>>

NoFile == [st |-> "null", rows |-> <<>>, pos |-> 0]

\* The variables of main() at its entry.
AtEntry ==
  /\ ksize = 31
  /\ out_fname = ""
  /\ use_ktcmp = FALSE
  /\ help_opt = FALSE
  /\ mat_1 = NoFile
  /\ mat_2 = NoFile
  /\ outfile = "null"
  /\ out = <<>>
  /\ kmer_1 = <<>> /\ kmer_2 = <<>>
  /\ line_1 = <<>> /\ line_2 = <<>>
  /\ has_kmer_1 = FALSE /\ has_kmer_2 = FALSE
  /\ n_sample_1 = 0 /\ n_sample_2 = 0
  /\ status = 0
  /\ reads_1 = 0 /\ reads_2 = 0

Init ==
  /\ pc = "getopt"
  /\ opts \in BoundedSeq(Options, MaxOpts)
  /\ npos \in {1, 2}
  /\ zflag = (\E i \in 1..Len(opts) : opts[i].c = "z")
  /\ AtEntry
  /\ cmp_in = <<>>
  /\ cmp_out = <<>>
  /\ rd_in = <<>>
  /\ rd_out = <<>>

(***************************************************************************)
(* Option parsing.                                                         *)
(***************************************************************************)
\* getopt(argc, argv, "k:o:h")
optstring == {"k", "o", "h"}

\* What getopt() returns for an option letter.
Getopt(c) == IF c \in optstring THEN c ELSE "?"

\* strtol(optarg, NULL, 10)
Strtol(arg) ==
  CASE arg = "0" -> 0 [] arg = "1" -> 1 [] arg = "3" -> 3 [] OTHER -> 0

\* One iteration of the getopt loop.
ParseOption ==
  /\ pc = "getopt"
  /\ opts # <<>>
  /\ LET o == Head(opts)
         c == Getopt(o.c)
     IN /\ ksize' = IF c = "k" THEN Strtol(o.arg) ELSE ksize
        /\ out_fname' = IF c = "o" THEN o.arg ELSE out_fname
        /\ use_ktcmp' = IF c = "z" THEN TRUE ELSE use_ktcmp
        /\ help_opt' = IF c = "h" THEN TRUE ELSE help_opt
        /\ pc' = IF c = "?" THEN "exit" ELSE pc
        /\ status' = IF c = "?" THEN 1 ELSE status
  /\ opts' = Tail(opts)
  /\ UNCHANGED <<npos, zflag, mat_1, mat_2, outfile, out, kmer_1, kmer_2,
                 line_1, line_2, has_kmer_1, has_kmer_2, n_sample_1, n_sample_2>>
  /\ UNCHANGED <<reads_1, reads_2, cmp_in, cmp_out, rd_in, rd_out>>

\* getopt() returned -1: the checks of ksize and of the positional arguments.
CheckArgs ==
  /\ pc = "getopt"
  /\ opts = <<>>
  /\ IF ksize <= 0 THEN pc' = "exit" /\ status' = 1
     ELSE IF npos # 2 \/ help_opt THEN pc' = "exit" /\ status' = 0
     ELSE pc' = "open1" /\ status' = status
  /\ UNCHANGED <<opts, npos, zflag, ksize, out_fname, use_ktcmp, help_opt, mat_1,
                 mat_2, outfile, out, kmer_1, kmer_2, line_1, line_2,
                 has_kmer_1, has_kmer_2, n_sample_1, n_sample_2>>
  /\ UNCHANGED <<reads_1, reads_2, cmp_in, cmp_out, rd_in, rd_out>>

(***************************************************************************)
(* Opening the files.                                                      *)
(***************************************************************************)
\* Mutant: the handle left open.
Closed_Leak(f) == f

Opened(rows) == [st |-> "open", rows |-> rows, pos |-> 0]
Closed(f)    == [f EXCEPT !.st = "closed"]

\* mat_1 = fopen(argv[optind],"r")
OpenMat1 ==
  /\ pc = "open1"
  /\ \/ /\ pc' = "exit" /\ status' = 1
        /\ UNCHANGED mat_1
     \/ /\ \E rows \in Matrices1(ksize) : mat_1' = Opened(rows)
        /\ pc' = "open2"
        /\ UNCHANGED status
  /\ UNCHANGED <<opts, npos, zflag, ksize, out_fname, use_ktcmp, help_opt, mat_2,
                 outfile, out, kmer_1, kmer_2, line_1, line_2, has_kmer_1,
                 has_kmer_2, n_sample_1, n_sample_2>>
  /\ UNCHANGED <<reads_1, reads_2, cmp_in, cmp_out, rd_in, rd_out>>

\* mat_2 = fopen(argv[optind+1],"r")
OpenMat2 ==
  /\ pc = "open2"
  /\ \/ /\ mat_1' = Closed(mat_1)
        /\ pc' = "exit" /\ status' = 1
        /\ UNCHANGED mat_2
     \/ /\ \E rows \in Matrices2(ksize) : mat_2' = Opened(rows)
        /\ pc' = "openout"
        /\ UNCHANGED <<mat_1, status>>
  /\ UNCHANGED <<opts, npos, zflag, ksize, out_fname, use_ktcmp, help_opt,
                 outfile, out, kmer_1, kmer_2, line_1, line_2, has_kmer_1,
                 has_kmer_2, n_sample_1, n_sample_2>>
  /\ UNCHANGED <<reads_1, reads_2, cmp_in, cmp_out, rd_in, rd_out>>

\* outfile = out_fname ? fopen(out_fname,"w") : stdout
OpenOut ==
  /\ pc = "openout"
  /\ \/ /\ out_fname = ""
        /\ outfile' = "stdout"
        /\ pc' = "init"
        /\ UNCHANGED <<mat_1, mat_2, status>>
     \/ /\ out_fname # ""
        /\ outfile' = "file"
        /\ pc' = "init"
        /\ UNCHANGED <<mat_1, mat_2, status>>
     \/ /\ out_fname # ""
        /\ mat_1' = Closed(mat_1)
        /\ mat_2' = Closed(mat_2)
        /\ pc' = "exit" /\ status' = 1
        /\ UNCHANGED outfile
  /\ UNCHANGED <<opts, npos, zflag, ksize, out_fname, use_ktcmp, help_opt, out,
                 kmer_1, kmer_2, line_1, line_2, has_kmer_1, has_kmer_2,
                 n_sample_1, n_sample_2>>
  /\ UNCHANGED <<reads_1, reads_2, cmp_in, cmp_out, rd_in, rd_out>>

(***************************************************************************)
(* The merge.                                                              *)
(***************************************************************************)
\* What an out-of-table read of isnuc can yield: zero or not.
OobValues == {0, 1}

\* What a call of next_kmer_and_line on each stream can return in one build:
\* char signed or not, and each call's out-of-table reads zero or not.
ReadBoth(k1, l1, m1, k2, l2, m2, k) ==
  {[r1 |-> next_kmer_and_line(k1, k, l1, m1, sgn, oob1),
    r2 |-> next_kmer_and_line(k2, k, l2, m2, sgn, oob2)] :
     sgn \in BOOLEAN, oob1 \in OobValues, oob2 \in OobValues}

\* Mutant: a call that returns the current row again without reading.
ReadOne_Stuck(k1, l1, m1, k) ==
  {[ret |-> TRUE, kmer |-> k1, line |-> l1, stream |-> m1]}

\* What a call of next_kmer_and_line on one stream can return.
ReadOne(k1, l1, m1, k) ==
  {next_kmer_and_line(k1, k, l1, m1, sgn, oob) :
     sgn \in BOOLEAN, oob \in OobValues}

\* Mutant: the second loop entered when either stream has a row.
LoopPc_Either(h1, h2) ==
  IF h1 /\ h2 THEN "merge" ELSE IF h1 \/ h2 THEN "drain" ELSE "cleanup"

\* Mutant: no second loop.
LoopPc_NoDrain(h1, h2) == IF h1 /\ h2 THEN "merge" ELSE "cleanup"

\* The loop the two has_kmer flags select: while(has_kmer_1 && has_kmer_2),
\* then while(has_kmer_1), then the cleanup.
LoopPc(h1, h2) == IF h1 /\ h2 THEN "merge" ELSE IF h1 THEN "drain" ELSE "cleanup"

\* Mutant: the keys passed in the other order.
Compare_Swapped(use, k1, k2) == IF use THEN ktcmp(k2, k1) ELSE strcmp(k2, k1)

\* Mutant: the row written when the keys are equal too.
MergeWrite_OnEqual(ret_cmp, line1) ==
  (IF ret_cmp <= 0 THEN CStr(line1) ELSE <<>>) \o <<10>>

\* Mutant: the row written in every iteration.
MergeWrite_Always(ret_cmp, line1) == CStr(line1) \o <<10>>

\* Mutant: the row never written.
MergeWrite_Never(ret_cmp, line1) == <<10>>

\* Mutant: the row padded by its own number of samples.
DrainWrite_OwnWidth(kmer1, line1, n2) ==
  CStr(kmer1) \o <<32>> \o first_column(CStr(line1))
    \o Zeros(samples_number(CStr(line1))) \o <<10>>

\* ret_cmp = use_ktcmp ? ktcmp(kmer_1,kmer_2) : strcmp(kmer_1,kmer_2)
Compare(use, k1, k2) == IF use THEN ktcmp(k1, k2) ELSE strcmp(k1, k2)

\* The bytes one iteration of the first loop writes.
MergeWrite(ret_cmp, line1) ==
  (IF ret_cmp < 0 THEN CStr(line1) ELSE <<>>) \o <<10>>

\* The bytes one iteration of the second loop writes.
DrainWrite(kmer1, line1, n2) ==
  CStr(kmer1) \o <<32>> \o first_column(CStr(line1)) \o Zeros(n2) \o <<10>>

\* The buffers, the first row of each matrix and its number of samples.
ReadFirst ==
  /\ pc = "init"
  /\ \E r \in ReadBoth([i \in 1..ksize |-> 0], <<>>, mat_1,
                       [i \in 1..ksize |-> 0], <<>>, mat_2, ksize) :
       LET r1 == r.r1
           r2 == r.r2
       IN /\ kmer_1' = r1.kmer /\ line_1' = r1.line /\ mat_1' = r1.stream
          /\ has_kmer_1' = r1.ret
          /\ n_sample_1' = IF r1.ret THEN samples_number(CStr(r1.line)) ELSE 0
          /\ kmer_2' = r2.kmer /\ line_2' = r2.line /\ mat_2' = r2.stream
          /\ has_kmer_2' = r2.ret
          /\ n_sample_2' = IF r2.ret THEN samples_number(CStr(r2.line)) ELSE 0
          /\ reads_1' = reads_1 + 1 /\ reads_2' = reads_2 + 1
          /\ pc' = LoopPc(r1.ret, r2.ret)
  /\ UNCHANGED <<opts, npos, zflag, ksize, out_fname, use_ktcmp, help_opt,
                 outfile, out, status>>
  /\ UNCHANGED <<cmp_in, cmp_out, rd_in, rd_out>>

\* One iteration of while(has_kmer_1 && has_kmer_2).
MergeStep ==
  /\ pc = "merge"
  /\ \E r \in ReadBoth(kmer_1, line_1, mat_1, kmer_2, line_2, mat_2, ksize) :
       LET ret_cmp == Compare(use_ktcmp, kmer_1, kmer_2)
           r1 == r.r1
           r2 == r.r2
           adv1 == ret_cmp <= 0
           adv2 == ret_cmp >= 0
       IN /\ out' = out \o MergeWrite(ret_cmp, line_1)
          /\ kmer_1' = IF adv1 THEN r1.kmer ELSE kmer_1
          /\ line_1' = IF adv1 THEN r1.line ELSE line_1
          /\ mat_1' = IF adv1 THEN r1.stream ELSE mat_1
          /\ has_kmer_1' = IF adv1 THEN r1.ret ELSE has_kmer_1
          /\ kmer_2' = IF adv2 THEN r2.kmer ELSE kmer_2
          /\ line_2' = IF adv2 THEN r2.line ELSE line_2
          /\ mat_2' = IF adv2 THEN r2.stream ELSE mat_2
          /\ has_kmer_2' = IF adv2 THEN r2.ret ELSE has_kmer_2
          /\ reads_1' = IF adv1 THEN reads_1 + 1 ELSE reads_1
          /\ reads_2' = IF adv2 THEN reads_2 + 1 ELSE reads_2
          /\ pc' = LoopPc(has_kmer_1', has_kmer_2')
  /\ UNCHANGED <<opts, npos, zflag, ksize, out_fname, use_ktcmp, help_opt,
                 outfile, n_sample_1, n_sample_2, status>>
  /\ UNCHANGED <<cmp_in, cmp_out, rd_in, rd_out>>

\* One iteration of while(has_kmer_1).
DrainStep ==
  /\ pc = "drain"
  /\ \E r1 \in ReadOne(kmer_1, line_1, mat_1, ksize) :
       /\ out' = out \o DrainWrite(kmer_1, line_1, n_sample_2)
       /\ kmer_1' = r1.kmer /\ line_1' = r1.line /\ mat_1' = r1.stream
       /\ has_kmer_1' = r1.ret
       /\ reads_1' = reads_1 + 1
       /\ pc' = LoopPc(r1.ret, FALSE)
  /\ UNCHANGED reads_2
  /\ UNCHANGED <<opts, npos, zflag, ksize, out_fname, use_ktcmp, help_opt, mat_2,
                 outfile, kmer_2, line_2, has_kmer_2, n_sample_1, n_sample_2,
                 status>>
  /\ UNCHANGED <<cmp_in, cmp_out, rd_in, rd_out>>

\* The frees and fcloses, and return 0.
Finish ==
  /\ pc = "cleanup"
  /\ kmer_1' = <<>> /\ kmer_2' = <<>> /\ line_1' = <<>> /\ line_2' = <<>>
  /\ mat_1' = Closed(mat_1)
  /\ mat_2' = Closed(mat_2)
  /\ outfile' = IF outfile # "stdout" THEN "closed" ELSE outfile
  /\ pc' = "exit" /\ status' = 0
  /\ UNCHANGED <<opts, npos, zflag, ksize, out_fname, use_ktcmp, help_opt, out,
                 has_kmer_1, has_kmer_2, n_sample_1, n_sample_2>>
  /\ UNCHANGED <<reads_1, reads_2, cmp_in, cmp_out, rd_in, rd_out>>

Next ==
  \/ ParseOption
  \/ CheckArgs
  \/ OpenMat1
  \/ OpenMat2
  \/ OpenOut
  \/ ReadFirst
  \/ MergeStep
  \/ DrainStep
  \/ Finish

Spec == Init /\ [][Next]_vars

(***************************************************************************)
(* The comparators on their own: the expression that sets ret_cmp, applied *)
(* to pairs of keys the reader accepts, under either order.                *)
(***************************************************************************)
CmpAlphabet == {Ord("A"), Ord("C"), Ord("G"), Ord("T"), Ord("N")}
CmpKeys(n)  == [1..n -> CmpAlphabet]

InitCmp ==
  /\ pc = "cmp"
  /\ opts = <<>> /\ npos = 2 /\ zflag = FALSE
  /\ AtEntry
  /\ \E n \in 1..KeyLen :
       cmp_in \in {<<use, k1, k2>> :
                     use \in BOOLEAN, k1 \in CmpKeys(n), k2 \in CmpKeys(n)}
  /\ cmp_out = <<>>
  /\ rd_in = <<>>
  /\ rd_out = <<>>

CompareKeys ==
  /\ pc = "cmp"
  /\ cmp_out' = <<Compare(cmp_in[1], cmp_in[2], cmp_in[3]),
                  Compare(cmp_in[1], cmp_in[3], cmp_in[2])>>
  /\ pc' = "cmpdone"
  /\ UNCHANGED <<opts, npos, zflag, ksize, out_fname, use_ktcmp, help_opt, mat_1,
                 mat_2, outfile, out, kmer_1, kmer_2, line_1, line_2,
                 has_kmer_1, has_kmer_2, n_sample_1, n_sample_2, status, cmp_in>>
  /\ UNCHANGED <<reads_1, reads_2, rd_in, rd_out>>

NextCmp == CompareKeys

SpecCmp == InitCmp /\ [][NextCmp]_vars

(***************************************************************************)
(* Reading the input matrices and the output as rows.                      *)
(***************************************************************************)
RECURSIVE SplitLines(_)
\* The lines of a text, each without its newline.
SplitLines(text) ==
  IF text = <<>> THEN <<>>
  ELSE IF \E i \in 1..Len(text) : text[i] = 10
  THEN LET n == CHOOSE i \in 1..Len(text) :
                  text[i] = 10 /\ \A j \in 1..(i - 1) : text[j] # 10
       IN <<SubSeq(text, 1, n - 1)>> \o SplitLines(SubSeq(text, n + 1, Len(text)))
  ELSE <<text>>

RECURSIVE IsSubseq(_, _)
IsSubseq(a, b) ==
  IF a = <<>> THEN TRUE
  ELSE IF b = <<>> THEN FALSE
  ELSE IF Head(a) = Head(b) THEN IsSubseq(Tail(a), Tail(b))
  ELSE IsSubseq(a, Tail(b))

Nonblank(line) == line # <<>>
\* The first ksize bytes of a line (all of it, when it is shorter).
KeyOf(line)    == SubSeq(line, 1, IF Len(line) < ksize THEN Len(line) ELSE ksize)

\* The rows the output holds and their keys, in output order.
EmittedRows == SelectSeq(SplitLines(out), Nonblank)
EmittedKeys == [i \in 1..Len(EmittedRows) |-> KeyOf(EmittedRows[i])]

KeysOf(rows) == [i \in 1..Len(rows) |-> KeyOf(rows[i])]
KeySet(rows) == {KeyOf(rows[i]) : i \in 1..Len(rows)}

\* A row of the input format: k symbols of {A,C,G,T}, then a blank or the end
\* of the line, and a newline at the end.
Nucleotides == {Ord("A"), Ord("C"), Ord("G"), Ord("T")}

WellFormedRow(row) ==
  /\ Len(row) > ksize
  /\ \A i \in 1..ksize : row[i] \in Nucleotides
  /\ row[ksize + 1] \in {Ord(" "), Ord("\t"), Ord("\n")}
  /\ row[Len(row)] = Ord("\n")

WellFormed(rows) == \A i \in 1..Len(rows) : WellFormedRow(rows[i])

\* The order the run was asked to use: lexicographic, or by rank with -z.
Order(k1, k2) == IF use_ktcmp THEN ktcmp(k1, k2) ELSE strcmp(k1, k2)

\* Keys in non-decreasing, and in increasing, order under the active order.
Sorted(rows) ==
  \A i \in 1..(Len(rows) - 1) : Order(KeyOf(rows[i]), KeyOf(rows[i + 1])) <= 0

StrictlySorted(rows) ==
  \A i \in 1..(Len(rows) - 1) : Order(KeyOf(rows[i]), KeyOf(rows[i + 1])) < 0

BothOpen == mat_1.st # "null" /\ mat_2.st # "null"

\* The run went through the merge and returned 0.
Merged == pc = "exit" /\ status = 0 /\ outfile # "null"

Count(seq, x) == Cardinality({i \in 1..Len(seq) : seq[i] = x})

(***************************************************************************)
(* C1. Key-only difference.                                                *)
(***************************************************************************)
DifferenceOnly ==
  \A i \in 1..Len(EmittedKeys) :
    /\ EmittedKeys[i] \in KeySet(mat_1.rows)
    /\ EmittedKeys[i] \notin KeySet(mat_2.rows)

\* C1 as claimed: for two streams of well-formed rows with non-decreasing keys
\* (repeated keys allowed), every emitted key is a key of the left stream and
\* of no row of the right stream.
C1_KeyOnlyDifference_NonDecreasing ==
  (BothOpen /\ WellFormed(mat_1.rows) /\ WellFormed(mat_2.rows)
     /\ Sorted(mat_1.rows) /\ Sorted(mat_2.rows))
  => DifferenceOnly

\* C1 as amended: when the keys of the left stream are strictly increasing
\* (the right stream may repeat keys), every emitted key is a key of the left
\* stream and of no row of the right stream.
C1_KeyOnlyDifference ==
  (BothOpen /\ WellFormed(mat_1.rows) /\ WellFormed(mat_2.rows)
     /\ StrictlySorted(mat_1.rows) /\ Sorted(mat_2.rows))
  => DifferenceOnly

\* A finished merge of a strictly increasing left stream with a right stream
\* that repeats a key: one left key was dropped, another emitted.
C1_Witness ==
  /\ Merged /\ ksize = 1
  /\ WellFormed(mat_1.rows) /\ WellFormed(mat_2.rows)
  /\ StrictlySorted(mat_1.rows) /\ Sorted(mat_2.rows)
  /\ Len(mat_1.rows) = 2 /\ Len(mat_2.rows) = 2
  /\ mat_2.rows[1] = mat_2.rows[2]
  /\ KeyOf(mat_1.rows[1]) \in KeySet(mat_2.rows)
  /\ Len(EmittedKeys) = 1

(***************************************************************************)
(* C2. Completeness of the difference.                                     *)
(***************************************************************************)
\* C2: after the merge of two sorted streams of well-formed rows, each key of
\* the left stream that is no key of the right stream is in the output once
\* for each left row that has it.
C2_Complete ==
  (Merged /\ WellFormed(mat_1.rows) /\ WellFormed(mat_2.rows)
     /\ Sorted(mat_1.rows) /\ Sorted(mat_2.rows))
  => \A k \in KeySet(mat_1.rows) \ KeySet(mat_2.rows) :
       Count(EmittedKeys, k) = Count(KeysOf(mat_1.rows), k)

\* A finished merge that emitted one surviving row in the first loop and one
\* in the second, and dropped nothing.
C2_Witness ==
  /\ Merged /\ ksize = 1
  /\ WellFormed(mat_1.rows) /\ WellFormed(mat_2.rows)
  /\ Sorted(mat_1.rows) /\ Sorted(mat_2.rows)
  /\ Len(mat_1.rows) = 2 /\ Len(mat_2.rows) = 1
  /\ Order(KeyOf(mat_1.rows[1]), KeyOf(mat_2.rows[1])) < 0
  /\ Order(KeyOf(mat_2.rows[1]), KeyOf(mat_1.rows[2])) < 0
  /\ Len(EmittedKeys) = 2

(***************************************************************************)
(* C3. The output holds the surviving rows and nothing else.               *)
(***************************************************************************)
ExampleOut ==
  Str(<<"A", "A", "A", " ", "1", " ", "2", "\n",
        "T", "T", "T", " ", "3", " ", "3", " ", "0", " ", "0", "\n">>)

\* C3: every line of the output is a row (an iteration that finds the keys
\* equal, or the left key greater, writes nothing), and the output for the
\* 3-mer example is the two lines "AAA 1 2" and "TTT 3 3 0 0".
C3_OnlySurvivingRows ==
  /\ Len(SplitLines(out)) = Len(EmittedRows)
  /\ (Merged /\ ksize = 3 /\ mat_1.rows = ExampleLeft /\ mat_2.rows = ExampleRight)
       => out = ExampleOut

(***************************************************************************)
(* C4. Drain padding.                                                      *)
(***************************************************************************)
\* The bytes {A,C,G,N,T,a,c,g,n,t} the reader's table marks.
Accepted ==
  {Ord("A"), Ord("C"), Ord("G"), Ord("N"), Ord("T"),
   Ord("a"), Ord("c"), Ord("g"), Ord("n"), Ord("t")}

TokensAfterKey(row) == Tokens(SubSeq(row, ksize + 1, Len(row)))

\* Width(right): the tokens after the key of the first row of the right
\* stream, 0 when that row is missing or no valid row.
RightWidth ==
  IF /\ Len(mat_2.rows) > 0
     /\ Len(mat_2.rows[1]) >= ksize
     /\ \A i \in 1..ksize : mat_2.rows[1][i] \in Accepted
  THEN TokensAfterKey(mat_2.rows[1]) ELSE 0

\* C4: a step taken once the right stream is exhausted writes one line: the
\* key and the columns of the current left row, however many they are,
\* followed by exactly Width(right) columns " 0".
C4_DrainPadding ==
  [][pc = "drain" =>
       LET row  == mat_1.rows[mat_1.pos]
           n    == Len(out') - Len(out)
           line == SubSeq(out', Len(out) + 1, Len(out') - 1)
           own  == Len(line) - 2 * RightWidth
       IN /\ n >= 1
          /\ SubSeq(out', 1, Len(out)) = out
          /\ out'[Len(out')] = 10
          /\ own >= ksize
          /\ SubSeq(line, own + 1, Len(line)) = Zeros(RightWidth)
          /\ KeyOf(line) = KeyOf(row)
          /\ Tokens(SubSeq(line, 1, own)) = Tokens(row)
          /\ \A i \in 1..Len(line) : line[i] # 10]_vars

\* The right stream's first row has two columns and its second row one; both
\* were consumed, and a left row with fewer than two columns was then written
\* with two zero columns.
C4_Witness ==
  /\ Merged /\ ksize = 1
  /\ Len(mat_2.rows) = 2 /\ mat_2.pos = 2
  /\ RightWidth = 2 /\ TokensAfterKey(mat_2.rows[2]) = 1
  /\ Len(mat_1.rows) = 1 /\ TokensAfterKey(mat_1.rows[1]) < 2
  /\ Len(EmittedRows) = 1
  /\ LET line == EmittedRows[1]
     IN SubSeq(line, Len(line) - 3, Len(line)) = Zeros(2)

(***************************************************************************)
(* C5. Order preservation.                                                 *)
(***************************************************************************)
\* C5: for any two streams, the keys emitted so far are, in order, keys of
\* distinct left rows consumed so far: a subsequence of the left key sequence.
C5_OrderPreserved ==
  BothOpen =>
    IsSubseq(EmittedKeys, KeysOf(SubSeq(mat_1.rows, 1, mat_1.pos)))

\* A finished merge of an unsorted left stream that emitted both its rows,
\* with a right stream that had a row to compare with.
C5_Witness ==
  /\ Merged /\ ksize = 1
  /\ Len(mat_1.rows) = 2 /\ ~Sorted(mat_1.rows)
  /\ Len(mat_2.rows) >= 1 /\ mat_2.pos >= 1
  /\ EmittedKeys = KeysOf(mat_1.rows)

(***************************************************************************)
(* C6, C7. What the record reader accepts, and what a rejected line does.  *)
(***************************************************************************)
\* The row a stream delivered last.
Current(mat) == mat.rows[mat.pos]

\* A line whose first ksize bytes hold a byte other than A, C, G, T.
NotACGT(row) ==
  \E i \in 1..ksize : i <= Len(row) /\ row[i] \notin Nucleotides

\* A line whose first ksize bytes hold a byte 0x00..0x7F the reader's table
\* does not mark.
Rejected(row) ==
  \E i \in 1..ksize : i <= Len(row) /\ row[i] < 128 /\ row[i] \notin Accepted

\* The left stream delivered row j, and nothing of it or after it was read
\* further or written.
LeftEndsAt(j) ==
  /\ mat_1.pos = j
  /\ ~has_kmer_1
  /\ pc \in {"cleanup", "exit"}
  /\ IsSubseq(EmittedKeys, KeysOf(SubSeq(mat_1.rows, 1, j - 1)))

HasRow(s) ==
  /\ pc \in {"merge", "drain"}
  /\ IF s = 1 THEN has_kmer_1 ELSE has_kmer_2

Kmer(s) == IF s = 1 THEN kmer_1 ELSE kmer_2
Mat(s)  == IF s = 1 THEN mat_1 ELSE mat_2

\* C7 as claimed: the reader returns a row only for a line of at least k
\* characters whose first k characters are of {A,C,G,T}, and the key it holds
\* is those k characters.
C7_ReaderAcceptsOnlyACGT ==
  \A s \in {1, 2} :
    HasRow(s) =>
      /\ Len(Current(Mat(s))) >= ksize
      /\ ~NotACGT(Current(Mat(s)))
      /\ Kmer(s) = KeyOf(Current(Mat(s)))

\* C7 as amended: the reader returns a row only for a line of at least k
\* bytes none of whose first k bytes is a byte 0x00..0x7F outside
\* {A,C,G,N,T,a,c,g,n,t}, and the key it holds is those k bytes.
C7_ReaderAccepts ==
  \A s \in {1, 2} :
    HasRow(s) =>
      /\ Len(Current(Mat(s))) >= ksize
      /\ ~Rejected(Current(Mat(s)))
      /\ Kmer(s) = KeyOf(Current(Mat(s)))

\* The left stream's current row has the key "a" and the right stream's next
\* line, with the key "x", was refused.
C7_Witness ==
  /\ pc = "drain" /\ ksize = 1
  /\ kmer_1 = <<Ord("a")>>
  /\ mat_2.pos = 1 /\ mat_2.rows[1][1] = Ord("x")
  /\ ~has_kmer_2

(***************************************************************************)
(* C8, C9. The key orders.                                                 *)
(***************************************************************************)
Sign(n) == IF n < 0 THEN -1 ELSE IF n > 0 THEN 1 ELSE 0

\* The rank table A=0, C=1, T=2, G=3.
Rank(b) ==
  CASE b = Ord("A") -> 0 [] b = Ord("C") -> 1
    [] b = Ord("T") -> 2 [] b = Ord("G") -> 3

OverACGT(k) == \A i \in 1..Len(k) : k[i] \in Nucleotides

Compared == pc = "cmpdone"
ByRank   == cmp_in[1]
Key1     == cmp_in[2]
Key2     == cmp_in[3]

\* C8: for two keys of the same length over {A,C,G,T}, the rank comparator's
\* result has the sign of the difference of the ranks A=0, C=1, T=2, G=3 at the
\* first position where the keys differ, and is zero when they do not differ.
C8_RankOrder ==
  (Compared /\ ByRank /\ OverACGT(Key1) /\ OverACGT(Key2)) =>
    LET D == {i \in 1..Len(Key1) : Key1[i] # Key2[i]}
    IN IF D = {} THEN cmp_out[1] = 0
       ELSE LET p == CHOOSE i \in D : \A j \in D : i <= j
            IN Sign(cmp_out[1]) = Sign(Rank(Key1[p]) - Rank(Key2[p]))

\* "AT" against "AG" by rank: T comes before G, unlike in byte order.
C8_Witness ==
  /\ Compared /\ ByRank
  /\ Key1 = Str(<<"A", "T">>) /\ Key2 = Str(<<"A", "G">>)
  /\ cmp_out[1] < 0

\* The laws of a total order for the compared pair, with every third key of
\* the set Keys for transitivity.
Reflexive == Key1 = Key2 => cmp_out[1] = 0
Definite  == cmp_out[1] = 0 => Key1 = Key2
SignFlips == Sign(cmp_out[2]) = -Sign(cmp_out[1])

Transitive(Keys) ==
  \A k3 \in Keys :
    (cmp_out[1] <= 0 /\ Compare(ByRank, Key2, k3) <= 0)
      => Compare(ByRank, Key1, k3) <= 0

\* C9 as claimed: on the keys the reader accepts, either order compares a key
\* equal to itself, gives zero only for the same key, flips its sign when the
\* keys are swapped, and is transitive.
C9_TotalOrders_Accepted ==
  Compared =>
    /\ Reflexive /\ Definite /\ SignFlips
    /\ Transitive(CmpKeys(Len(Key1)))

\* C9 as amended: on the keys the reader accepts, either order compares a key
\* equal to itself and flips its sign when the keys are swapped; the
\* lexicographic order also gives zero only for the same key and is
\* transitive, and so does the rank order on the keys over {A,C,G,T}.
C9_TotalOrders ==
  Compared =>
    /\ Reflexive /\ SignFlips
    /\ ~ByRank => (Definite /\ Transitive(CmpKeys(Len(Key1))))
    /\ (ByRank /\ OverACGT(Key1) /\ OverACGT(Key2))
         => (Definite /\ Transitive({k \in CmpKeys(Len(Key1)) : OverACGT(k)}))

\* "GA" against "TA" by rank: greater one way, less the other.
C9_Witness ==
  /\ Compared /\ ByRank
  /\ Key1 = Str(<<"G", "A">>) /\ Key2 = Str(<<"T", "A">>)
  /\ cmp_out[1] > 0 /\ cmp_out[2] < 0

(***************************************************************************)
(* C10. Selecting the key order.                                           *)
(***************************************************************************)
\* getopt() has gone past a -z of the command line.
ZConsumed == zflag /\ \A i \in 1..Len(opts) : opts[i].c # "z"

\* C10: without -z the keys are compared lexicographically; once the options
\* of a command line with -z are read, the rank order is selected and the run
\* has not failed for it.
C10_OrderSelectable ==
  /\ ~zflag => ~use_ktcmp
  /\ ZConsumed => use_ktcmp

(***************************************************************************)
(* C11. Configuration errors.                                              *)
(***************************************************************************)
\* The run ended on a command line whose options were all read and whose key
\* length is not positive or whose positional arguments are not two.
ConfigError == pc = "exit" /\ opts = <<>> /\ (ksize <= 0 \/ npos # 2)

NothingOpened == mat_1 = NoFile /\ mat_2 = NoFile /\ outfile = "null"

\* C11: a run with a key length <= 0, or without both positional arguments,
\* ends with a non-zero exit status, no file opened and nothing written.
C11_ConfigErrorsFatal ==
  ConfigError => (status # 0 /\ NothingOpened /\ out = <<>>)

(***************************************************************************)
(* C12. Resource errors.                                                   *)
(***************************************************************************)
\* An fopen() of the first input, the second input or the output failed.
OpenFailed == pc \in {"open1", "open2", "openout"} /\ pc' = "exit"

\* C12: when an input or the output cannot be opened the run ends with a
\* non-zero exit status, the files opened before the failure are closed (and
\* the others were never opened), no row has been read from either input and
\* nothing has been written.
C12_ResourceErrorsFatal ==
  [][OpenFailed =>
       /\ status' # 0
       /\ mat_1'.st = (IF pc = "open1" THEN "null" ELSE "closed")
       /\ mat_2'.st = (IF pc = "openout" THEN "closed" ELSE "null")
       /\ outfile' = "null"
       /\ mat_1'.pos = 0 /\ mat_2'.pos = 0
       /\ line_1' = <<>> /\ line_2' = <<>>
       /\ out' = <<>>]_vars

\* The output could not be opened after both inputs were: both are closed.
C12_Witness ==
  /\ pc = "exit" /\ status = 1
  /\ mat_1.st = "closed" /\ mat_2.st = "closed" /\ outfile = "null"
  /\ Len(mat_1.rows) > 0 /\ Len(mat_2.rows) > 0

(***************************************************************************)
(* C13. The phases of the merge driver.                                    *)
(***************************************************************************)
\* MERGING is the first loop, DRAIN-LEFT the second, DONE what follows them.
Merging   == pc = "merge"
DrainLeft == pc = "drain"
Done      == pc \in {"cleanup", "exit"}
InDriver  == pc \in {"merge", "drain", "cleanup"}

\* A step of the driver: the first reads or an iteration of either loop.
DriverStep == pc \in {"init", "merge", "drain"}

\* C13: the driver is in MERGING only while both streams have a current row;
\* it is in DRAIN-LEFT exactly when the right stream is exhausted and the left
\* has a current row; a step that exhausts the left stream leads to DONE
\* whatever the right stream's state; DRAIN-LEFT is never followed by MERGING;
\* and in DONE no row is read and nothing is written.
C13_PhaseTransitions ==
  /\ [](/\ Merging => (has_kmer_1 /\ has_kmer_2)
        /\ InDriver => (DrainLeft <=> (has_kmer_1 /\ ~has_kmer_2))
        /\ InDriver => ((pc = "cleanup") <=> ~has_kmer_1))
  /\ [][/\ DriverStep => (pc' = "drain" <=> (has_kmer_1' /\ ~has_kmer_2'))
        /\ DriverStep => (pc' = "cleanup" <=> ~has_kmer_1')
        /\ DrainLeft => pc' \in {"drain", "cleanup"}
        /\ Done => /\ pc' = "exit"
                   /\ out' = out
                   /\ mat_1'.pos = mat_1.pos /\ mat_2'.pos = mat_2.pos
                   /\ has_kmer_1' = has_kmer_1 /\ has_kmer_2' = has_kmer_2]_vars

\* DRAIN-LEFT reached from MERGING: the right stream's two valid rows were
\* both consumed by the first loop, and the left stream has a current row.
C13_Witness ==
  /\ DrainLeft /\ ksize = 1
  /\ Len(mat_2.rows) = 2 /\ WellFormed(mat_2.rows) /\ mat_2.pos = 2
  /\ mat_1.pos = 2

(***************************************************************************)
(* C14. What an iteration of the first loop changes.                       *)
(***************************************************************************)
\* The reader was called once on a stream: its cursor moved to the next line,
\* or stayed at the end of the file with end-of-stream signalled.
Advanced(mat, mat_next, has_next) ==
  /\ mat_next.rows = mat.rows
  /\ IF mat.pos < Len(mat.rows) THEN mat_next.pos = mat.pos + 1
     ELSE mat_next.pos = mat.pos /\ ~has_next

\* The keys of the two current rows, compared in the order of the run.
CurrentOrder == Order(KeyOf(Current(mat_1)), KeyOf(Current(mat_2)))

\* C14: an iteration of MERGING with left < right appends the left row as it
\* was read (no zero columns) to the output and advances the left stream only,
\* the right stream's cursor, key, row and width unchanged; with left > right
\* it advances the right stream only, the left stream's cursor, key and row
\* unchanged; with equal keys each stream leaves its current row for the one
\* line after it (for end-of-stream, when no line is left).
C14_MergeFrame ==
  [][Merging =>
       /\ CurrentOrder < 0 =>
            /\ out' = out \o Current(mat_1)
            /\ Advanced(mat_1, mat_1', has_kmer_1')
            /\ mat_2' = mat_2 /\ kmer_2' = kmer_2 /\ line_2' = line_2
            /\ has_kmer_2' = has_kmer_2 /\ n_sample_2' = n_sample_2
       /\ CurrentOrder > 0 =>
            /\ Advanced(mat_2, mat_2', has_kmer_2')
            /\ mat_1' = mat_1 /\ kmer_1' = kmer_1 /\ line_1' = line_1
            /\ has_kmer_1' = has_kmer_1
       /\ CurrentOrder = 0 =>
            /\ Advanced(mat_1, mat_1', has_kmer_1')
            /\ Advanced(mat_2, mat_2', has_kmer_2')]_vars

\* Left "A","G" against right "C","G": one iteration of each kind was taken,
\* the first wrote the row "A 1", the other two wrote a newline each.
C14_Witness ==
  /\ pc = "cleanup" /\ ksize = 1
  /\ KeysOf(mat_1.rows) = <<Str(<<"A">>), Str(<<"G">>)>>
  /\ KeysOf(mat_2.rows) = <<Str(<<"C">>), Str(<<"G">>)>>
  /\ mat_1.pos = 2 /\ mat_2.pos = 2
  /\ out = mat_1.rows[1] \o <<10, 10>>

(***************************************************************************)
(* C15. End-of-stream.                                                     *)
(***************************************************************************)
\* The first reads were made.
Started == InDriver \/ Merged

\* The reader's last call on the stream returned false: the end of the file,
\* a line shorter than ksize or a key byte the table refuses.
Exhausted(s) == Started /\ ~(IF s = 1 THEN has_kmer_1 ELSE has_kmer_2)

\* C15: once the reader has returned false for a stream no later step calls
\* it on that stream; while the right stream is exhausted and the left has a
\* current row, the step taken is one of DRAIN-LEFT, which writes that row
\* and reads the left stream once; and the run goes on to exit status 0.
C15_EndOfStreamAbsorbing ==
  /\ [](Started => ((pc = "exit" /\ status = 0) \/ ENABLED Next))
  /\ []((Exhausted(2) /\ has_kmer_1) => DrainLeft)
  /\ [][/\ Exhausted(1) =>
             (reads_1' = reads_1 /\ mat_1'.pos = mat_1.pos /\ Exhausted(1)')
        /\ Exhausted(2) =>
             (reads_2' = reads_2 /\ mat_2'.pos = mat_2.pos /\ Exhausted(2)')
        /\ (Exhausted(2) /\ has_kmer_1) =>
             /\ reads_1' = reads_1 + 1
             /\ Len(out') > Len(out)
             /\ KeyOf(SubSeq(out', Len(out) + 1, Len(out')))
                  = KeyOf(Current(mat_1))]_vars

\* The right stream's first line has the key "x": it was read once and its
\* second line never; both left rows were written by DRAIN-LEFT and the run
\* returned 0.
C15_Witness ==
  /\ Merged /\ ksize = 1
  /\ Len(mat_2.rows) = 2 /\ mat_2.rows[1][1] = Ord("x")
  /\ mat_2.pos = 1 /\ reads_2 = 1
  /\ Len(mat_1.rows) = 2 /\ reads_1 = 3
  /\ Len(EmittedRows) = 2

(***************************************************************************)
(* C16. Termination.                                                       *)
(***************************************************************************)
\* The calls of the reader made so far, and the most two files allow: one per
\* line and one that finds the end of the file, for each stream.
TotalReads == reads_1 + reads_2
ReadBound  == (Len(mat_1.rows) + 1) + (Len(mat_2.rows) + 1)

\* C16: the merge does not stop before DONE, and DONE exits with status 0;
\* every iteration of MERGING and of DRAIN-LEFT makes at least one read on at
\* least one stream; no stream's cursor or read count ever decreases; and the
\* reads on the two streams never total more than
\* (rows in left + 1) + (rows in right + 1).
C16_Termination ==
  /\ [](pc \in {"init", "merge", "drain", "cleanup"} => ENABLED Next)
  /\ [](Started => (reads_1 <= Len(mat_1.rows) + 1 /\ TotalReads <= ReadBound))
  /\ [][/\ (Merging \/ DrainLeft) => TotalReads' > TotalReads
        /\ pc = "cleanup" => (pc' = "exit" /\ status' = 0)
        /\ mat_1'.pos >= mat_1.pos /\ mat_2'.pos >= mat_2.pos
        /\ reads_1' >= reads_1 /\ reads_2' >= reads_2]_vars

\* A finished merge of two files of two rows that read each file to its end:
\* three reads on each stream, the bound.
C16_Witness ==
  /\ Merged /\ ksize = 1
  /\ Len(mat_1.rows) = 2 /\ Len(mat_2.rows) = 2
  /\ reads_1 = 3 /\ reads_2 = 3
  /\ TotalReads = ReadBound

(***************************************************************************)
(* The record reader on its own: one call of next_kmer_and_line on a line  *)
(* whose key region holds any byte value, with char signed or unsigned.    *)
(***************************************************************************)
\* What getline() delivers of a text: its bytes up to the first newline.
Getline(text) ==
  IF \E i \in 1..Len(text) : text[i] = 10
  THEN SubSeq(text, 1, CHOOSE i \in 1..Len(text) :
                         text[i] = 10 /\ \A j \in 1..(i - 1) : text[j] # 10)
  ELSE text

\* A line with a key region of n bytes, "A" but for the byte b at position p,
\* and one column.
RdLine(n, p, b) ==
  Getline([i \in 1..n |-> IF i = p THEN b ELSE Ord("A")] \o Str(<<" ", "1", "\n">>))

\* The indices isnuc is read at by the validation loop of one call.
Lookups(raw, k, sgn, oob) ==
  IF Len(raw) < k THEN {}
  ELSE LET bad  == FirstBad(raw, k, 1, sgn, oob)
           last == IF bad <= k THEN bad ELSE k
       IN {CharToInt(raw[i], sgn) : i \in 1..last}

InitRd ==
  /\ pc = "rd"
  /\ opts = <<>> /\ npos = 2 /\ zflag = FALSE
  /\ AtEntry
  /\ cmp_in = <<>>
  /\ cmp_out = <<>>
  /\ \E n \in 1..KeyLen :
       rd_in \in {[sgn |-> sgn, oob |-> oob, k |-> n, raw |-> RdLine(n, p, b)] :
                    sgn \in BOOLEAN, oob \in OobValues, p \in 1..n, b \in Byte}
  /\ rd_out = <<>>

ReadLine ==
  /\ pc = "rd"
  /\ LET r == next_kmer_and_line([i \in 1..rd_in.k |-> 0], rd_in.k, <<>>,
                                 Opened(<<rd_in.raw>>), rd_in.sgn, rd_in.oob)
     IN rd_out' = [ret |-> r.ret, kmer |-> r.kmer,
                   idx |-> Lookups(rd_in.raw, rd_in.k, rd_in.sgn, rd_in.oob)]
  /\ pc' = "rddone"
  /\ UNCHANGED <<opts, npos, zflag, ksize, out_fname, use_ktcmp, help_opt, mat_1,
                 mat_2, outfile, out, kmer_1, kmer_2, line_1, line_2,
                 has_kmer_1, has_kmer_2, n_sample_1, n_sample_2, status>>
  /\ UNCHANGED <<reads_1, reads_2, cmp_in, cmp_out, rd_in>>

NextRd == ReadLine

SpecRd == InitRd /\ [][NextRd]_vars

(***************************************************************************)
(* C17. The index of the alphabet lookup.                                  *)
(***************************************************************************)
\* C17: whatever byte value 0x00..0xFF a line holds in its key region, and
\* whether char is signed or not, every index the reader looks isnuc up at
\* is within the table, 0..255.
C17_IndexInTable ==
  pc = "rddone" => rd_out.idx \subseteq Byte

(***************************************************************************)
(* C18. The difference with an empty right stream.                         *)
(***************************************************************************)
RECURSIVE Concat(_)
\* The lines of a file, one after the other.
Concat(rows) == IF rows = <<>> THEN <<>> ELSE Head(rows) \o Concat(Tail(rows))

\* The right stream has no valid first row: no line at all, or a first line
\* shorter than ksize or with a key byte the reader refuses.
RightEmpty ==
  \/ mat_2.rows = <<>>
  \/ Len(mat_2.rows[1]) < ksize
  \/ Rejected(mat_2.rows[1])

\* C18: after a run whose right stream has no valid first row, the output is
\* the left stream of well-formed rows byte for byte, whether key and columns
\* are separated by a space, a tab or several blanks, or the row is a key
\* alone.
C18_EmptyRightIdentity ==
  (Merged /\ RightEmpty /\ WellFormed(mat_1.rows)) => out = Concat(mat_1.rows)

====
